---- MODULE Spec2Model ----
(***************************************************************************)
(* Model of mark (main.go): the LocalMarkDB store persisted in ~/.mark and *)
(* the MarkCli command handlers.                                           *)
(*                                                                         *)
(* A Go string is a sequence of one-character strings, so that the         *)
(* newline-delimited file format, strings.Split, strings.Join and          *)
(* strconv.Atoi are computed as the code computes them.                    *)
(***************************************************************************)
EXTENDS Integers, Sequences, FiniteSets, TLC

VARIABLES
    fileExists,   \* whether ~/.mark exists
    fileData,     \* the bytes of ~/.mark
    last,         \* the invocation or store call that ran last, with its outcome
    procs         \* the invocations running at the same time, each at a file step

vars == <<fileExists, fileData, last, procs>>

(***************************************************************************)
(* Bounds of the model.                                                    *)
(***************************************************************************)
MaxLines == 3      \* a call is started only on a store of at most this many lines
MaxFaults == 1     \* filesystem operations that fail during one invocation
MaxFaultPos == 12  \* the failing operation is among the first MaxFaultPos
MaxStepLines == 2  \* a stepwise add or delete is started only on a store of at most this many lines

\* body applied to the value of e, which is computed once: the local variable of
\* a Go statement "x := e".
With(e, body(_)) == CHOOSE y \in {body(x) : x \in {e}} : TRUE

(***************************************************************************)
(* Strings.                                                                *)
(***************************************************************************)
LF == "\n"
CR == "\r"
Slash == "/"

NoErr == "nil"
ErrInvalidIndex == "invalid index"
ErrIO == "filesystem error"

Digits == <<"0", "1", "2", "3", "4", "5", "6", "7", "8", "9">>

IsDigit(c) == \E i \in 1..10 : Digits[i] = c

DigitVal(c) == (CHOOSE i \in 1..10 : Digits[i] = c) - 1

\* Index of the first occurrence of character c in s, 0 when there is none.
IndexOf(s, c) ==
    IF \E i \in 1..Len(s) : s[i] = c
    THEN CHOOSE i \in 1..Len(s) : s[i] = c /\ \A j \in 1..(i - 1) : s[j] # c
    ELSE 0

\* strings.Split(s, sep) for a one-character separator.
RECURSIVE Split(_, _)
Split(s, sep) ==
    With(IndexOf(s, sep), LAMBDA i :
        IF i = 0 THEN <<s>>
        ELSE With(SubSeq(s, i + 1, Len(s)), LAMBDA rest :
                 <<SubSeq(s, 1, i - 1)>> \o Split(rest, sep)))

\* strings.Join(arr, sep) for a one-character separator.
RECURSIVE Join(_, _)
Join(arr, sep) ==
    IF arr = <<>> THEN <<>>
    ELSE IF Len(arr) = 1 THEN arr[1]
    ELSE With(Tail(arr), LAMBDA rest : arr[1] \o <<sep>> \o Join(rest, sep))

RECURSIVE DecimalValue(_)
DecimalValue(s) ==
    IF s = <<>> THEN 0
    ELSE With(SubSeq(s, 1, Len(s) - 1), LAMBDA front :
             10 * DecimalValue(front) + DigitVal(s[Len(s)]))

\* strconv.Atoi: an optional sign followed by at least one decimal digit.
Atoi(s) ==
    LET signed == s # <<>> /\ s[1] \in {"+", "-"}
        body == IF signed THEN Tail(s) ELSE s
    IN  IF body = <<>> \/ \E i \in 1..Len(body) : ~IsDigit(body[i])
        THEN [val |-> 0, err |-> "invalid syntax"]
        ELSE [val |-> IF signed /\ s[1] = "-" THEN 0 - DecimalValue(body)
                      ELSE DecimalValue(body),
              err |-> NoErr]

\* The %v formatting of a non-negative int.
RECURSIVE Itoa(_)
Itoa(n) ==
    IF n < 10 THEN <<Digits[n + 1]>>
    ELSE With(n \div 10, LAMBDA q : Itoa(q) \o <<Digits[(n % 10) + 1]>>)

\* bufio.ScanLines drops one trailing carriage return of a line.
DropCR(s) == IF s # <<>> /\ s[Len(s)] = CR THEN SubSeq(s, 1, Len(s) - 1) ELSE s

\* The tokens bufio.Scanner yields with the default split function ScanLines:
\* newline-terminated lines, then a final unterminated line if it is not empty.
RECURSIVE ScanLines(_)
ScanLines(data) ==
    IF data = <<>> THEN <<>>
    ELSE With(IndexOf(data, LF), LAMBDA i :
             IF i = 0 THEN <<DropCR(data)>>
             ELSE With(SubSeq(data, i + 1, Len(data)), LAMBDA rest :
                      <<DropCR(SubSeq(data, 1, i - 1))>> \o ScanLines(rest)))

\* slices.Contains
Contains(s, e) == \E i \in 1..Len(s) : s[i] = e

(***************************************************************************)
(* The filesystem as one invocation sees it: the store file, the number of *)
(* filesystem operations made so far, the positions of the operations that *)
(* fail, whether one has failed and whether another was made after that.   *)
(***************************************************************************)
NewFS(exists, data, faults) ==
    [exists |-> exists, data |-> data, n |-> 0, faults |-> faults,
     failed |-> FALSE, after |-> FALSE]

Faulty(fs) == (fs.n + 1) \in fs.faults

\* Account for one filesystem operation that succeeded (ok) or failed.
Tick(fs, ok) ==
    [fs EXCEPT !.n = @ + 1, !.after = @ \/ fs.failed, !.failed = @ \/ ~ok]

\* An open for reading that also truncates, as with os.O_TRUNC among the flags.
OpenReadTruncates(fs) ==
    IF Faulty(fs) THEN [fs |-> Tick(fs, FALSE), err |-> ErrIO]
    ELSE [fs |-> Tick([fs EXCEPT !.exists = TRUE, !.data = <<>>], TRUE), err |-> NoErr]

\* os.OpenFile(l.DBFile, os.O_RDONLY|os.O_CREATE, l.filePerm)
OpenRead(fs) ==
    IF Faulty(fs) THEN [fs |-> Tick(fs, FALSE), err |-> ErrIO]
    ELSE [fs |-> Tick([fs EXCEPT !.exists = TRUE], TRUE), err |-> NoErr]

\* The scanner's read of the open file; a failed read ends scanner.Scan.
ReadFile(fs) ==
    IF Faulty(fs) THEN [fs |-> Tick(fs, FALSE), val |-> <<>>]
    ELSE [fs |-> Tick(fs, TRUE), val |-> ScanLines(fs.data)]

\* os.OpenFile(l.DBFile, os.O_APPEND|os.O_WRONLY|os.O_CREATE, l.filePerm)
OpenAppend(fs) ==
    IF Faulty(fs) THEN [fs |-> Tick(fs, FALSE), err |-> ErrIO]
    ELSE [fs |-> Tick([fs EXCEPT !.exists = TRUE], TRUE), err |-> NoErr]

\* file.WriteString(s) on a file opened with O_APPEND
WriteString(fs, s) ==
    IF Faulty(fs) THEN [fs |-> Tick(fs, FALSE), err |-> ErrIO]
    ELSE [fs |-> Tick([fs EXCEPT !.data = @ \o s], TRUE), err |-> NoErr]

(***************************************************************************)
(* LocalMarkDB                                                             *)
(***************************************************************************)
\* os.Truncate fails on a file that does not exist.
DBClear(fs) ==
    IF Faulty(fs) \/ ~fs.exists THEN [fs |-> Tick(fs, FALSE), err |-> ErrIO]
    ELSE [fs |-> Tick([fs EXCEPT !.data = <<>>], TRUE), err |-> NoErr]

\* scanner.Err() is never consulted: List returns what was scanned, and nil.
DBList(fs) ==
    With(OpenRead(fs), LAMBDA o :
        IF o.err # NoErr THEN [fs |-> o.fs, val |-> <<>>, err |-> o.err]
        ELSE With(ReadFile(o.fs), LAMBDA r :
                 [fs |-> r.fs, val |-> r.val, err |-> NoErr]))

\* for _, item := range paths { _, err = file.WriteString(item + "\n") }
RECURSIVE WriteAll(_, _, _)
WriteAll(fs, paths, err) ==
    IF paths = <<>> THEN [fs |-> fs, err |-> err]
    ELSE With(WriteString(fs, Head(paths) \o <<LF>>), LAMBDA w :
         With(Tail(paths), LAMBDA rest :
             WriteAll(w.fs, rest, w.err)))

\* The error of l.Clear() is dropped.
DBAdd(fs, path) ==
    With(DBList(fs), LAMBDA l :
        IF l.err # NoErr THEN [fs |-> l.fs, err |-> l.err]
        ELSE With(<<path>> \o l.val, LAMBDA paths :
             With(DBClear(l.fs), LAMBDA c :
             With(OpenAppend(c.fs), LAMBDA o :
                 IF o.err # NoErr THEN [fs |-> o.fs, err |-> o.err]
                 ELSE WriteAll(o.fs, paths, o.err)))))

DBGet(fs, index) ==
    IF index < 0 THEN [fs |-> fs, val |-> <<>>, err |-> ErrInvalidIndex]
    ELSE With(DBList(fs), LAMBDA l :
             IF l.err # NoErr THEN [fs |-> l.fs, val |-> <<>>, err |-> l.err]
             ELSE IF index < 0 \/ index > Len(l.val) - 1
                  THEN [fs |-> l.fs, val |-> <<>>, err |-> ErrInvalidIndex]
             ELSE [fs |-> l.fs, val |-> l.val[index + 1], err |-> NoErr])

\* The loop of Delete: l.Add(path) for every index but the supplied one, the
\* error of Add dropped. k is the zero-based index of Head(paths).
RECURSIVE DeleteLoop(_, _, _, _)
DeleteLoop(fs, paths, k, suppliedIndex) ==
    IF paths = <<>> THEN fs
    ELSE With(Tail(paths), LAMBDA rest :
         With(k + 1, LAMBDA next :
             IF k = suppliedIndex THEN DeleteLoop(fs, rest, next, suppliedIndex)
             ELSE With(DBAdd(fs, Head(paths)), LAMBDA a :
                      DeleteLoop(a.fs, rest, next, suppliedIndex))))

\* Delete with the upper bound of its index check off by one.
DBDeleteBoundOffByOne(fs, suppliedIndex) ==
    With(DBList(fs), LAMBDA l :
        IF l.err # NoErr THEN [fs |-> l.fs, err |-> l.err]
        ELSE IF suppliedIndex < 0 \/ suppliedIndex > Len(l.val)
             THEN [fs |-> l.fs, err |-> ErrInvalidIndex]
        ELSE With(DBClear(l.fs), LAMBDA c :
                 [fs |-> DeleteLoop(c.fs, l.val, 0, suppliedIndex), err |-> NoErr]))

\* The error of l.Clear() is dropped.
DBDelete(fs, suppliedIndex) ==
    With(DBList(fs), LAMBDA l :
        IF l.err # NoErr THEN [fs |-> l.fs, err |-> l.err]
        ELSE IF suppliedIndex < 0 \/ suppliedIndex >= Len(l.val)
             THEN [fs |-> l.fs, err |-> ErrInvalidIndex]
        ELSE With(DBClear(l.fs), LAMBDA c :
                 [fs |-> DeleteLoop(c.fs, l.val, 0, suppliedIndex), err |-> NoErr]))

(***************************************************************************)
(* MarkCli.  A handler's outcome is the filesystem it leaves, the lines it *)
(* printed on stdout and stderr, and the exit code of the process.         *)
(***************************************************************************)
\* A fixed text of the program, as one line of output.
Text(s) == <<s>>

\* handleError with a non-nil error: the error on stderr and os.Exit(1).
Fatal(fs, out, err) == [fs |-> fs, out |-> out, errout |-> <<Text(err)>>, exit |-> 1]

\* The handler returns, main returns after it: exit code 0.
Return(fs, out) == [fs |-> fs, out |-> out, errout |-> <<>>, exit |-> 0]

HelpText == Text("Marks the current location. ... Usage: mark [command] ...")
InstallText == Text("Run the following commands to create a move function ...")

DisplayHelp(fs, args) == Return(fs, <<HelpText>>)

Install(fs, args) == Return(fs, <<InstallText>>)

\* Back taking the root when no segment is left instead of one.
CliBackRootOffByOne(fs, cwd, args) ==
    IF Len(args) # 1 THEN Fatal(fs, <<>>, "invalid number of args")
    ELSE With(Atoi(args[1]), LAMBDA a :
         With(a.val, LAMBDA index :
         With(Split(cwd, Slash), LAMBDA arr :
         With(Len(arr) - index, LAMBDA directoriesBack :
             IF a.err # NoErr THEN Fatal(fs, <<>>, a.err)
             ELSE IF index < 0 THEN Fatal(fs, <<>>, ErrInvalidIndex)
             ELSE IF directoriesBack = 0 THEN Return(fs, <<<<Slash>>>>)
             ELSE IF directoriesBack < 0 THEN Fatal(fs, <<>>, ErrInvalidIndex)
             ELSE Return(fs, <<Join(SubSeq(arr, 1, directoriesBack), Slash)>>)))))

CliBack(fs, cwd, args) ==
    IF Len(args) # 1 THEN Fatal(fs, <<>>, "invalid number of args")
    ELSE With(Atoi(args[1]), LAMBDA a :
         With(a.val, LAMBDA index :
         With(Split(cwd, Slash), LAMBDA arr :
         With(Len(arr) - index, LAMBDA directoriesBack :
             IF a.err # NoErr THEN Fatal(fs, <<>>, a.err)
             ELSE IF index < 0 THEN Fatal(fs, <<>>, ErrInvalidIndex)
             ELSE IF directoriesBack = 1 THEN Return(fs, <<<<Slash>>>>)
             ELSE IF directoriesBack <= 0 THEN Fatal(fs, <<>>, ErrInvalidIndex)
             ELSE Return(fs, <<Join(SubSeq(arr, 1, directoriesBack), Slash)>>)))))

\* fmt.Printf("[%v] %v\n", index, path) for every path
ListLines(paths) ==
    [i \in 1..Len(paths) |-> <<"[">> \o Itoa(i - 1) \o <<"]", " ">> \o paths[i]]

CliList(fs, args) ==
    IF Len(args) # 0 THEN Fatal(fs, <<>>, "invalid number of arguments")
    ELSE With(DBList(fs), LAMBDA l :
             IF l.err # NoErr THEN Fatal(l.fs, <<>>, l.err)
             ELSE Return(l.fs, ListLines(l.val)))

\* The loop of Add that re-adds every other item after the moved path.
RECURSIVE AddLoop(_, _, _, _)
AddLoop(fs, paths, path, out) ==
    IF paths = <<>> THEN Return(fs, out)
    ELSE With(Tail(paths), LAMBDA rest :
             IF Head(paths) = path THEN AddLoop(fs, rest, path, out)
             ELSE With(DBAdd(fs, Head(paths)), LAMBDA a :
                      IF a.err # NoErr THEN Fatal(a.fs, out, a.err)
                      ELSE AddLoop(a.fs, rest, path, out)))

\* The errors of m.db.Clear() and of the m.db.Add(path) after it are dropped.
CliAdd(fs, cwd, args) ==
    IF Len(args) # 0 THEN Fatal(fs, <<>>, "invalid number of arguments")
    ELSE With(cwd, LAMBDA path :
         With(DBList(fs), LAMBDA l :
             IF l.err # NoErr THEN Fatal(l.fs, <<>>, l.err)
             ELSE IF ~Contains(l.val, path)
                  THEN With(DBAdd(l.fs, path), LAMBDA a :
                           IF a.err # NoErr
                           THEN Fatal(a.fs, <<>>, "invalid number of arguments")
                           ELSE Return(a.fs, <<>>))
             ELSE With(DBClear(l.fs), LAMBDA c :
                  With(DBAdd(c.fs, path), LAMBDA a :
                      AddLoop(a.fs, l.val, path,
                              <<Text("path already exists. Moving to top.")>>)))))

\* Get going on with index 0 when its argument is not a number.
CliGetKeepsBadIndex(fs, args) ==
    IF Len(args) > 1 THEN Fatal(fs, <<>>, "invalid number of arguments")
    ELSE With(IF Len(args) = 1 THEN Atoi(args[1]) ELSE [val |-> 0, err |-> NoErr],
              LAMBDA a :
                  With(DBGet(fs, a.val), LAMBDA g :
                      IF g.err # NoErr THEN Fatal(g.fs, <<>>, g.err)
                      ELSE Return(g.fs, <<g.val>>)))

CliGet(fs, args) ==
    IF Len(args) > 1 THEN Fatal(fs, <<>>, "invalid number of arguments")
    ELSE With(IF Len(args) = 1 THEN Atoi(args[1]) ELSE [val |-> 0, err |-> NoErr],
              LAMBDA a :
                  IF a.err # NoErr THEN Fatal(fs, <<>>, "index is not a number")
                  ELSE With(DBGet(fs, a.val), LAMBDA g :
                           IF g.err # NoErr THEN Fatal(g.fs, <<>>, g.err)
                           ELSE Return(g.fs, <<g.val>>)))

CliClear(fs, args) ==
    With(DBClear(fs), LAMBDA c :
        IF c.err # NoErr THEN Fatal(c.fs, <<>>, c.err) ELSE Return(c.fs, <<>>))

CliDelete(fs, args) ==
    IF Len(args) # 1 THEN Fatal(fs, <<>>, "specify index")
    ELSE With(Atoi(args[1]), LAMBDA a :
             IF a.err # NoErr THEN Fatal(fs, <<>>, a.err)
             ELSE With(DBDelete(fs, a.val), LAMBDA d :
                      IF d.err # NoErr THEN Fatal(d.fs, <<>>, d.err)
                      ELSE Return(d.fs, <<>>)))

(***************************************************************************)
(* main: os.Args is the program name followed by the command line.         *)
(***************************************************************************)
AddCmd == <<"a", "d", "d">>
BackCmd == <<"b", "a", "c", "k">>
ClearCmd == <<"c", "l", "e", "a", "r">>
DeleteCmd == <<"d", "e", "l", "e", "t", "e">>
GetCmd == <<"g", "e", "t">>
HelpCmd == <<"h", "e", "l", "p">>
InstallCmd == <<"i", "n", "s", "t", "a", "l", "l">>
ListCmd == <<"l", "i", "s", "t">>
ProgName == <<"m", "a", "r", "k">>

Commands == {AddCmd, BackCmd, ClearCmd, DeleteCmd, GetCmd, HelpCmd, InstallCmd, ListCmd}

\* The handler the commands map holds for a name.
Command(name, fs, cwd, commandArgs) ==
    IF name = AddCmd THEN CliAdd(fs, cwd, commandArgs)
    ELSE IF name = BackCmd THEN CliBack(fs, cwd, commandArgs)
    ELSE IF name = ClearCmd THEN CliClear(fs, commandArgs)
    ELSE IF name = DeleteCmd THEN CliDelete(fs, commandArgs)
    ELSE IF name = GetCmd THEN CliGet(fs, commandArgs)
    ELSE IF name = InstallCmd THEN Install(fs, commandArgs)
    ELSE IF name = ListCmd THEN CliList(fs, commandArgs)
    ELSE DisplayHelp(fs, commandArgs)

\* main handing the command token to the handler with the arguments.
MainKeepsCommandToken(fs, cwd, osArgs) ==
    With(IF Len(osArgs) = 1 THEN osArgs \o <<AddCmd>> ELSE osArgs, LAMBDA args :
    With(args[2] \in Commands, LAMBDA ok :
    With(SubSeq(args, 2, Len(args)), LAMBDA commandArgs :
        IF ok THEN Command(args[2], fs, cwd, commandArgs)
        ELSE With(Command(HelpCmd, fs, cwd, commandArgs), LAMBDA r :
                 [r EXCEPT !.errout = <<Text("invalid option. displaying help.")>> \o @]))))

Main(fs, cwd, osArgs) ==
    With(IF Len(osArgs) = 1 THEN osArgs \o <<AddCmd>> ELSE osArgs, LAMBDA args :
    With(args[2] \in Commands, LAMBDA ok :
    With(SubSeq(args, 3, Len(args)), LAMBDA commandArgs :
        IF ok THEN Command(args[2], fs, cwd, commandArgs)
        ELSE With(Command(HelpCmd, fs, cwd, commandArgs), LAMBDA r :
                 [r EXCEPT !.errout = <<Text("invalid option. displaying help.")>> \o @]))))

(***************************************************************************)
(* Inputs: working directories, command-line tokens, store arguments.      *)
(***************************************************************************)
RootDir == <<Slash>>
DirA == <<Slash, "a">>
DirABCD == <<Slash, "a", Slash, "b", Slash, "c", Slash, "d">>
\* A directory named "a", inside a directory whose name is "a" and a newline.
DirNewline == <<Slash, "a", LF, Slash, "a">>

WorkingDirs == {RootDir, DirA, DirABCD, DirNewline}

Tokens ==
    {Itoa(n) : n \in 0..5} \cup {<<"-", "1">>, <<"+", "1">>, <<"x">>, <<"1", "x">>, <<>>}

ArgLists == {<<>>} \cup {<<t>> : t \in Tokens} \cup {<<Itoa(0), Itoa(1)>>}

\* Command lines of the commands that take no argument: none, and one too many.
NoArgLists == {<<>>, <<Itoa(0)>>}

UnknownCmds == {<<"x">>, <<"a", "d">>}

Indexes == (0 - 1)..(MaxLines + 2)

\* Sets of at most MaxFaults positions of failing filesystem operations.
FaultSets == {F \in SUBSET (1..MaxFaultPos) : Cardinality(F) <= MaxFaults}

StoredLines == ScanLines(fileData)

Pre == [exists |-> fileExists, data |-> fileData]

NoCall ==
    [call |-> "none", argv |-> <<>>, cwd |-> <<>>, index |-> 0, path |-> <<>>,
     pre |-> [exists |-> FALSE, data |-> <<>>],
     exit |-> 0, out |-> <<>>, errout |-> <<>>, val |-> <<>>, err |-> NoErr,
     failed |-> FALSE, after |-> FALSE]

\* Two terminal sessions, each running one invocation at a time.
Procs == {1, 2}

\* An invocation as a process: where it is (pc), its command (op) with its working
\* directory or index, whether another invocation ran during it (race), the file it
\* started on (pre), the paths it still has to Add (todo), the lines its Add still
\* has to write (buf), the list of its latest rewrite of the file (wrote) and the
\* file as it was when the invocation ended (left).
IdleProc ==
    [pc |-> "idle", op |-> "none", cwd |-> <<>>, index |-> 0, race |-> FALSE,
     pre |-> [exists |-> FALSE, data |-> <<>>],
     todo |-> <<>>, buf |-> <<>>, wrote |-> <<>>, left |-> <<>>]

\* A fresh account: no store file yet, no invocation running.
Init ==
    /\ fileExists = FALSE
    /\ fileData = <<>>
    /\ last = NoCall
    /\ procs = [p \in Procs |-> IdleProc]

(***************************************************************************)
(* One invocation of the program, run to completion: the store file it     *)
(* leaves and the record of the invocation.                                *)
(***************************************************************************)
Invoke(call, cwd, osArgs, faults) ==
    With(Main(NewFS(fileExists, fileData, faults), cwd, osArgs), LAMBDA r :
        [exists |-> r.fs.exists,
         data |-> r.fs.data,
         last |-> [NoCall EXCEPT !.call = call, !.argv = osArgs, !.cwd = cwd,
                                 !.pre = Pre, !.exit = r.exit, !.out = r.out,
                                 !.errout = r.errout, !.failed = r.fs.failed,
                                 !.after = r.fs.after]])

\* The add of a path that is not stored makes the store longer.
Room(cwd) == Len(StoredLines) < MaxLines \/ Contains(StoredLines, cwd)

CmdDefault ==
    \E cwd \in WorkingDirs :
        \E r \in {Invoke("default", cwd, <<ProgName>>, {})} :
            /\ Room(cwd)
            /\ UNCHANGED procs
            /\ fileExists' = r.exists
            /\ fileData' = r.data
            /\ last' = r.last

CmdAdd ==
    \E cwd \in WorkingDirs, args \in NoArgLists :
        \E r \in {Invoke("add", cwd, <<ProgName, AddCmd>> \o args, {})} :
            /\ Room(cwd)
            /\ UNCHANGED procs
            /\ fileExists' = r.exists
            /\ fileData' = r.data
            /\ last' = r.last

CmdGet ==
    \E args \in ArgLists :
        \E r \in {Invoke("get", RootDir, <<ProgName, GetCmd>> \o args, {})} :
            /\ UNCHANGED procs
            /\ fileExists' = r.exists
            /\ fileData' = r.data
            /\ last' = r.last

CmdList ==
    \E args \in NoArgLists :
        \E r \in {Invoke("list", RootDir, <<ProgName, ListCmd>> \o args, {})} :
            /\ UNCHANGED procs
            /\ fileExists' = r.exists
            /\ fileData' = r.data
            /\ last' = r.last

CmdDelete ==
    \E args \in ArgLists :
        \E r \in {Invoke("delete", RootDir, <<ProgName, DeleteCmd>> \o args, {})} :
            /\ UNCHANGED procs
            /\ fileExists' = r.exists
            /\ fileData' = r.data
            /\ last' = r.last

CmdClear ==
    \E args \in NoArgLists :
        \E r \in {Invoke("clear", RootDir, <<ProgName, ClearCmd>> \o args, {})} :
            /\ UNCHANGED procs
            /\ fileExists' = r.exists
            /\ fileData' = r.data
            /\ last' = r.last

CmdBack ==
    \E cwd \in WorkingDirs, args \in ArgLists :
        \E r \in {Invoke("back", cwd, <<ProgName, BackCmd>> \o args, {})} :
            /\ UNCHANGED procs
            /\ fileExists' = r.exists
            /\ fileData' = r.data
            /\ last' = r.last

CmdHelp ==
    \E args \in NoArgLists :
        \E r \in {Invoke("help", RootDir, <<ProgName, HelpCmd>> \o args, {})} :
            /\ UNCHANGED procs
            /\ fileExists' = r.exists
            /\ fileData' = r.data
            /\ last' = r.last

CmdInstall ==
    \E args \in NoArgLists :
        \E r \in {Invoke("install", RootDir, <<ProgName, InstallCmd>> \o args, {})} :
            /\ UNCHANGED procs
            /\ fileExists' = r.exists
            /\ fileData' = r.data
            /\ last' = r.last

CmdUnknown ==
    \E c \in UnknownCmds, args \in NoArgLists :
        \E r \in {Invoke("unknown", RootDir, <<ProgName, c>> \o args, {})} :
            /\ UNCHANGED procs
            /\ fileExists' = r.exists
            /\ fileData' = r.data
            /\ last' = r.last

Next ==
    \/ CmdDefault
    \/ CmdAdd
    \/ CmdGet
    \/ CmdList
    \/ CmdDelete
    \/ CmdClear
    \/ CmdBack
    \/ CmdHelp
    \/ CmdInstall
    \/ CmdUnknown

Spec == Init /\ [][Next]_vars

(***************************************************************************)
(* The store called directly, one call at a time.                          *)
(***************************************************************************)
OpList ==
    \E r \in {DBList(NewFS(fileExists, fileData, {}))} :
        /\ UNCHANGED procs
        /\ fileExists' = r.fs.exists
        /\ fileData' = r.fs.data
        /\ last' = [NoCall EXCEPT !.call = "List", !.pre = Pre, !.err = r.err,
                                  !.val = r.val]

OpAdd ==
    \E path \in WorkingDirs :
        \E r \in {DBAdd(NewFS(fileExists, fileData, {}), path)} :
            /\ Len(StoredLines) < MaxLines
            /\ UNCHANGED procs
            /\ fileExists' = r.fs.exists
            /\ fileData' = r.fs.data
            /\ last' = [NoCall EXCEPT !.call = "Add", !.pre = Pre, !.err = r.err,
                                      !.path = path]

OpGet ==
    \E index \in Indexes :
        \E r \in {DBGet(NewFS(fileExists, fileData, {}), index)} :
            /\ UNCHANGED procs
            /\ fileExists' = r.fs.exists
            /\ fileData' = r.fs.data
            /\ last' = [NoCall EXCEPT !.call = "Get", !.pre = Pre, !.err = r.err,
                                      !.index = index, !.val = r.val]

OpDelete ==
    \E index \in Indexes :
        \E r \in {DBDelete(NewFS(fileExists, fileData, {}), index)} :
            /\ UNCHANGED procs
            /\ fileExists' = r.fs.exists
            /\ fileData' = r.fs.data
            /\ last' = [NoCall EXCEPT !.call = "Delete", !.pre = Pre, !.err = r.err,
                                      !.index = index]

OpClear ==
    \E r \in {DBClear(NewFS(fileExists, fileData, {}))} :
        /\ UNCHANGED procs
        /\ fileExists' = r.fs.exists
        /\ fileData' = r.fs.data
        /\ last' = [NoCall EXCEPT !.call = "Clear", !.pre = Pre, !.err = r.err]

NextDB ==
    \/ OpList
    \/ OpAdd
    \/ OpGet
    \/ OpDelete
    \/ OpClear

SpecDB == Init /\ [][NextDB]_vars

(***************************************************************************)
(* Commands and direct store calls on the same file, in any order.         *)
(***************************************************************************)
NextAll ==
    \/ Next
    \/ NextDB

SpecAll == Init /\ [][NextAll]_vars

(***************************************************************************)
(* Invocations during which filesystem operations of the faults set fail.  *)
(* A failed truncate leaves the old lines under the appended ones, so an   *)
(* invocation other than clear is started only on a store within MaxLines. *)
(***************************************************************************)
FaultyAdd ==
    \E cwd \in WorkingDirs, faults \in FaultSets :
        \E r \in {Invoke("add", cwd, <<ProgName, AddCmd>>, faults)} :
            /\ Len(StoredLines) <= MaxLines
            /\ Room(cwd)
            /\ UNCHANGED procs
            /\ fileExists' = r.exists
            /\ fileData' = r.data
            /\ last' = r.last

FaultyGet ==
    \E args \in {<<>>, <<Itoa(1)>>}, faults \in FaultSets :
        \E r \in {Invoke("get", RootDir, <<ProgName, GetCmd>> \o args, faults)} :
            /\ Len(StoredLines) <= MaxLines
            /\ UNCHANGED procs
            /\ fileExists' = r.exists
            /\ fileData' = r.data
            /\ last' = r.last

FaultyList ==
    \E faults \in FaultSets :
        \E r \in {Invoke("list", RootDir, <<ProgName, ListCmd>>, faults)} :
            /\ Len(StoredLines) <= MaxLines
            /\ UNCHANGED procs
            /\ fileExists' = r.exists
            /\ fileData' = r.data
            /\ last' = r.last

FaultyDelete ==
    \E args \in {<<Itoa(0)>>, <<Itoa(1)>>}, faults \in FaultSets :
        \E r \in {Invoke("delete", RootDir, <<ProgName, DeleteCmd>> \o args, faults)} :
            /\ Len(StoredLines) <= MaxLines
            /\ UNCHANGED procs
            /\ fileExists' = r.exists
            /\ fileData' = r.data
            /\ last' = r.last

FaultyClear ==
    \E faults \in FaultSets :
        \E r \in {Invoke("clear", RootDir, <<ProgName, ClearCmd>>, faults)} :
            /\ UNCHANGED procs
            /\ fileExists' = r.exists
            /\ fileData' = r.data
            /\ last' = r.last

NextFault ==
    \/ FaultyAdd
    \/ FaultyGet
    \/ FaultyList
    \/ FaultyDelete
    \/ FaultyClear

SpecFault == Init /\ [][NextFault]_vars

(***************************************************************************)
(* Commands and direct store calls, and the commands that only read the    *)
(* store run with failing filesystem operations, on the same file.         *)
(***************************************************************************)
\* List() makes two filesystem operations, the open and the read: each may fail.
ReadFaults == SUBSET {1, 2}

FailingGet ==
    \E args \in ArgLists, faults \in ReadFaults :
        \E r \in {Invoke("get", RootDir, <<ProgName, GetCmd>> \o args, faults)} :
            /\ UNCHANGED procs
            /\ fileExists' = r.exists
            /\ fileData' = r.data
            /\ last' = r.last

FailingList ==
    \E faults \in ReadFaults :
        \E r \in {Invoke("list", RootDir, <<ProgName, ListCmd>>, faults)} :
            /\ UNCHANGED procs
            /\ fileExists' = r.exists
            /\ fileData' = r.data
            /\ last' = r.last

NextRead ==
    \/ NextAll
    \/ FailingGet
    \/ FailingList

SpecRead == Init /\ [][NextRead]_vars

(***************************************************************************)
(* Invocations as processes that share the store file and take one         *)
(* filesystem operation per step: the open and the read of List, the       *)
(* truncate of Clear, the open for appending and each WriteString of Add.  *)
(* Nothing orders the steps of two invocations, and an invocation can be   *)
(* interrupted before any of its steps.                                    *)
(***************************************************************************)
StepDirs == {RootDir, DirA}

StepIndexes == {0, 1}

Running(p) == procs[p].pc \notin {"idle", "done", "failed", "killed"}

Other(p) == CHOOSE q \in Procs : q # p

\* Process p starts an invocation at step pc. At most two invocations overlap: p does
\* not start during an invocation that another one has already run into. The record
\* of an invocation that has ended is kept until the next invocation starts.
Begin(p, op, cwd, index, pc) ==
    /\ ~Running(p)
    /\ Running(Other(p)) => ~procs[Other(p)].race
    /\ procs' = [q \in Procs |->
                    IF q = p
                    THEN [IdleProc EXCEPT !.pc = pc, !.op = op, !.cwd = cwd,
                                          !.index = index, !.pre = Pre,
                                          !.race = Running(Other(p))]
                    ELSE IF Running(q) THEN [procs[q] EXCEPT !.race = TRUE]
                    ELSE IdleProc]
    /\ UNCHANGED <<fileExists, fileData, last>>

\* The step of p that leaves the file as data and p as the record next.
Step(p, exists, data, next) ==
    /\ fileExists' = exists
    /\ fileData' = data
    /\ procs' = [procs EXCEPT ![p] =
                    IF next.pc \in {"done", "failed"}
                    THEN [next EXCEPT !.left = data]
                    ELSE next]
    /\ UNCHANGED last

\* mark add in directory cwd
StartAdd ==
    \E p \in Procs, cwd \in StepDirs :
        /\ Len(StoredLines) < MaxStepLines \/ Contains(StoredLines, cwd)
        /\ Len(StoredLines) <= MaxStepLines
        /\ Begin(p, "add", cwd, 0, "list")

\* mark delete index
StartDelete ==
    \E p \in Procs, index \in StepIndexes :
        /\ Len(StoredLines) <= MaxStepLines
        /\ Begin(p, "delete", <<>>, index, "list")

\* mark clear
StartClear ==
    \E p \in Procs :
        /\ ~Running(p)
        /\ Begin(p, "clear", <<>>, 0, "clear")

\* The os.OpenFile of the List() that MarkCli.Add and Delete begin with.
StepList ==
    \E p \in Procs :
        /\ procs[p].pc = "list"
        /\ Step(p, TRUE, fileData, [procs[p] EXCEPT !.pc = "scan"])

\* The read of that List(), and what the command does with the paths: Add(path) when
\* the directory is not stored; Clear, Add(path) and Add of every other item when it
\* is; Clear and Add of every path but the index-th for Delete.
StepScan ==
    \E p \in Procs :
        /\ procs[p].pc = "scan"
        /\ \E paths \in {StoredLines} :
             Step(p, fileExists, fileData,
                    IF procs[p].op = "add"
                    THEN IF ~Contains(paths, procs[p].cwd)
                         THEN [procs[p] EXCEPT !.pc = "addList", !.todo = <<procs[p].cwd>>]
                         ELSE [procs[p] EXCEPT
                                  !.pc = "clear",
                                  !.todo = <<procs[p].cwd>> \o
                                           SelectSeq(paths, LAMBDA item : item # procs[p].cwd)]
                    ELSE IF procs[p].index < 0 \/ procs[p].index >= Len(paths)
                         THEN [procs[p] EXCEPT !.pc = "failed"]
                         ELSE [procs[p] EXCEPT
                                  !.pc = "clear",
                                  !.todo = SubSeq(paths, 1, procs[p].index) \o
                                           SubSeq(paths, procs[p].index + 2, Len(paths))])

\* The os.Truncate of the command's Clear(); it fails when there is no file, which
\* only mark clear reports.
StepClear ==
    \E p \in Procs :
        /\ procs[p].pc = "clear"
        /\ IF fileExists
           THEN Step(p, TRUE, <<>>,
                     [procs[p] EXCEPT !.wrote = <<>>,
                                      !.pc = IF procs[p].todo = <<>> THEN "done"
                                             ELSE "addList"])
           ELSE Step(p, FALSE, fileData,
                     [procs[p] EXCEPT !.pc = IF procs[p].op = "clear" THEN "failed"
                                             ELSE IF procs[p].todo = <<>> THEN "done"
                                             ELSE "addList"])

\* LocalMarkDB.Add of the first path of todo: the os.OpenFile of its List().
StepAddList ==
    \E p \in Procs :
        /\ procs[p].pc = "addList"
        /\ Step(p, TRUE, fileData, [procs[p] EXCEPT !.pc = "addScan"])

\* The read of that List(): paths is the new path followed by the lines read.
StepAddScan ==
    \E p \in Procs :
        /\ procs[p].pc = "addScan"
        /\ \E paths \in {<<Head(procs[p].todo)>> \o StoredLines} :
               Step(p, fileExists, fileData,
                    [procs[p] EXCEPT !.pc = "addClear", !.buf = paths, !.wrote = paths])

\* l.Clear() in Add, its error dropped.
StepAddClear ==
    \E p \in Procs :
        /\ procs[p].pc = "addClear"
        /\ Step(p, fileExists, IF fileExists THEN <<>> ELSE fileData,
                [procs[p] EXCEPT !.pc = "addOpen"])

\* os.OpenFile(l.DBFile, os.O_APPEND|os.O_WRONLY|os.O_CREATE, l.filePerm)
StepAddOpen ==
    \E p \in Procs :
        /\ procs[p].pc = "addOpen"
        /\ Step(p, TRUE, fileData, [procs[p] EXCEPT !.pc = "write"])

\* One file.WriteString(item + "\n"): with O_APPEND the line goes to the end of the
\* file as it is now. After the last line Add returns and the next path is added.
StepWrite ==
    \E p \in Procs :
        /\ procs[p].pc = "write"
        /\ \E rest \in {Tail(procs[p].buf)}, more \in {Tail(procs[p].todo)} :
               Step(p, fileExists, fileData \o Head(procs[p].buf) \o <<LF>>,
                    IF rest # <<>> THEN [procs[p] EXCEPT !.buf = rest]
                    ELSE [procs[p] EXCEPT !.buf = <<>>, !.todo = more,
                                          !.pc = IF more = <<>> THEN "done"
                                                 ELSE "addList"])

\* The process is killed before its next file step.
Interrupt ==
    \E p \in Procs :
        /\ Running(p)
        /\ procs' = [procs EXCEPT ![p].pc = "killed", ![p].left = fileData]
        /\ UNCHANGED <<fileExists, fileData, last>>

NextSteps ==
    \/ StartAdd
    \/ StartDelete
    \/ StartClear
    \/ StepList
    \/ StepScan
    \/ StepClear
    \/ StepAddList
    \/ StepAddScan
    \/ StepAddClear
    \/ StepAddOpen
    \/ StepWrite
    \/ Interrupt

SpecSteps == Init /\ [][NextSteps]_vars

(***************************************************************************)
(* Properties.                                                             *)
(***************************************************************************)
\* What List() returned before the last call, and returns after it.
PreLines == ScanLines(last.pre.data)

NoDuplicates(s) == \A i, j \in 1..Len(s) : s[i] = s[j] => i = j

\* s without its i-th element.
RemoveAt(s, i) == SubSeq(s, 1, i - 1) \o SubSeq(s, i + 1, Len(s))

\* The elements of s other than e, in their order.
RECURSIVE Others(_, _)
Others(s, e) ==
    IF s = <<>> THEN <<>>
    ELSE IF Head(s) = e THEN Others(Tail(s), e)
    ELSE <<Head(s)>> \o Others(Tail(s), e)

\* A path that is one line of the file: no newline in it, no carriage return at its end.
OneLine(path) == ScanLines(path \o <<LF>>) = <<path>>

AddRan == last.call \in {"add", "default"} /\ last.exit = 0

\* What "mark get" prints now.
GetPrints == Main(NewFS(fileExists, fileData, {}), RootDir, <<ProgName, GetCmd>>).out

\* C1: after a successful add command (or mark without a command) in directory D, D
\* is entry 0 of the store and a get without argument prints D, whether D was stored
\* before or not. Stated for the directories whose path is one line.
C1_AddPutsDirFirst ==
    (AddRan /\ OneLine(last.cwd)) =>
        /\ StoredLines # <<>>
        /\ StoredLines[1] = last.cwd
        /\ GetPrints = <<last.cwd>>

\* C2: the add command for a path already in the store keeps the number of entries
\* and the relative order of the other entries. Stated for stores without duplicates.
C2_MoveKeepsOthers ==
    (AddRan /\ Contains(PreLines, last.cwd) /\ NoDuplicates(PreLines)) =>
        /\ Len(StoredLines) = Len(PreLines)
        /\ Others(StoredLines, last.cwd) = Others(PreLines, last.cwd)

\* C3: Delete(i) with 0 <= i < length succeeds and leaves the previous entries
\* without the i-th, in their original order.
C3_DeleteRemovesIth ==
    (last.call = "Delete" /\ 0 <= last.index /\ last.index < Len(PreLines)) =>
        /\ last.err = NoErr
        /\ StoredLines = RemoveAt(PreLines, last.index + 1)

\* C4: after a successful store Add(p), List() returns p followed by the previous
\* list (p is not de-duplicated).
C4_AddPrepends ==
    (last.call = "Add" /\ last.err = NoErr) =>
        StoredLines = <<last.path>> \o PreLines

InRange(i, s) == 0 <= i /\ i < Len(s)

\* C5: Get(i) returns entry i of List() when 0 <= i < length and fails with "invalid
\* index" otherwise; Delete(i) fails with "invalid index" under the same bounds, and
\* a failed Delete leaves the stored list unchanged.
C5_GetDeleteBounds ==
    /\ last.call = "Get" =>
           IF InRange(last.index, PreLines)
           THEN last.err = NoErr /\ last.val = PreLines[last.index + 1]
           ELSE last.err = ErrInvalidIndex
    /\ last.call = "Delete" =>
           /\ last.err = ErrInvalidIndex <=> ~InRange(last.index, PreLines)
           /\ last.err # NoErr => StoredLines = PreLines /\ fileData = last.pre.data

\* A Delete just past the last entry of a store that is not empty was refused.
C5_Witness ==
    /\ last.call = "Delete"
    /\ last.err = ErrInvalidIndex
    /\ PreLines # <<>>
    /\ last.index = Len(PreLines)

\* C6: Clear() succeeds from every store state, also when the store is empty or its
\* file does not exist yet, and the List() that follows returns the empty sequence.
C6_ClearSucceeds ==
    last.call = "Clear" => last.err = NoErr /\ StoredLines = <<>>

\* C7: in every state reached from the empty store by add, delete and clear commands
\* the stored list holds no path twice.
C7_NoDuplicates == NoDuplicates(StoredLines)

\* The arguments the last invocation gave after its command, its index argument.
LastArgs == SubSeq(last.argv, 3, Len(last.argv))

NumericIndex == Len(LastArgs) = 1 /\ Atoi(LastArgs[1]).err = NoErr

LastIndex == Atoi(LastArgs[1]).val

\* The segments of a path: its parts between separators that are not empty.
Segments(path) == SelectSeq(Split(path, Slash), LAMBDA x : x # <<>>)

\* The absolute path made of the segments segs.
RECURSIVE AbsPath(_)
AbsPath(segs) ==
    IF segs = <<>> THEN <<>>
    ELSE <<Slash>> \o Head(segs) \o AbsPath(Tail(segs))

BackFailed == last.exit = 1 /\ last.errout = <<Text(ErrInvalidIndex)>> /\ last.out = <<>>

BackPrinted(path) == last.exit = 0 /\ last.out = <<path>>

BackRan == last.call = "back" /\ NumericIndex

\* C8 as stated: in a directory of n segments back k prints the first n-k segments
\* for 0 <= k < n-1, the root for k = n-1, and fails with "invalid index" for k >= n
\* and for k < 0.
C8_BackAsStated ==
    (BackRan /\ Len(Segments(last.cwd)) >= 1) =>
        LET segs == Segments(last.cwd)
            n == Len(segs)
            k == LastIndex
        IN  IF k < 0 \/ k >= n THEN BackFailed
            ELSE IF k = n - 1 THEN BackPrinted(RootDir)
            ELSE BackPrinted(AbsPath(SubSeq(segs, 1, n - k)))

\* C8 amended: in a directory of n >= 1 segments back k prints the first n-k segments
\* for 0 <= k < n, the root for k = n, and fails with "invalid index" for k > n and
\* for k < 0; in the root directory back 0 and back 1 print the root and every other
\* index fails.
C8_Back ==
    BackRan =>
        LET segs == Segments(last.cwd)
            n == Len(segs)
            k == LastIndex
        IN  IF n = 0
            THEN IF k \in {0, 1} THEN BackPrinted(RootDir) ELSE BackFailed
            ELSE IF k < 0 \/ k > n THEN BackFailed
            ELSE IF k = n THEN BackPrinted(RootDir)
            ELSE BackPrinted(AbsPath(SubSeq(segs, 1, n - k)))

\* back 3 in /a/b/c/d printed /a.
C8_Witness ==
    /\ BackRan
    /\ last.cwd = DirABCD
    /\ LastIndex = 3
    /\ last.out = <<DirA>>

\* C9: a command during which a filesystem operation failed exits with a code other
\* than 0 and made no filesystem operation after the first failure.
C9_FailStop == last.failed => last.exit # 0 /\ ~last.after

WrongArgCount ==
    \/ last.call \in {"add", "list"} /\ Len(LastArgs) # 0
    \/ last.call = "get" /\ Len(LastArgs) > 1
    \/ last.call \in {"delete", "back"} /\ Len(LastArgs) # 1

NonNumericIndex ==
    /\ last.call \in {"get", "delete", "back"}
    /\ Len(LastArgs) = 1
    /\ Atoi(LastArgs[1]).err # NoErr

\* The index of get (0 when none is given) or delete is not a position of the store.
StoreIndexOutOfRange ==
    \/ last.call = "get" /\ LastArgs = <<>> /\ PreLines = <<>>
    \/ last.call \in {"get", "delete"} /\ NumericIndex /\ ~InRange(LastIndex, PreLines)

Unchanged == StoredLines = PreLines /\ fileData = last.pre.data

\* C10 as stated, the range of back being the one the specification gives (0 <= k < n
\* in a directory of n >= 1 segments): add, list, get, delete and back with a wrong
\* number of arguments, an index that is no number or an index out of range exit with
\* code 1 and leave the stored list unchanged; an invocation that reports no error
\* exits with code 0.
C10_ErrorsAsStated ==
    /\ ( \/ WrongArgCount
         \/ NonNumericIndex
         \/ StoreIndexOutOfRange
         \/ /\ BackRan
            /\ Len(Segments(last.cwd)) >= 1
            /\ (LastIndex < 0 \/ LastIndex >= Len(Segments(last.cwd))) )
       => last.exit = 1 /\ Unchanged
    /\ last.errout = <<>> => last.exit = 0

\* The largest index back accepts in a directory.
MaxBack(cwd) == IF Segments(cwd) = <<>> THEN 1 ELSE Len(Segments(cwd))

\* C10 amended: the same, the index of back being out of range when it is negative or
\* larger than the number of segments of the working directory (larger than 1 in the
\* root directory).
C10_Errors ==
    /\ ( \/ WrongArgCount
         \/ NonNumericIndex
         \/ StoreIndexOutOfRange
         \/ BackRan /\ (LastIndex < 0 \/ LastIndex > MaxBack(last.cwd)) )
       => last.exit = 1 /\ Unchanged
    /\ last.errout = <<>> => last.exit = 0

\* A get whose index is not a number was refused on a store that holds a path.
C10_Witness ==
    /\ last.call = "get"
    /\ NonNumericIndex
    /\ PreLines # <<>>
    /\ last.exit = 1

\* The filesystem the last call started on.
PreFS == NewFS(last.pre.exists, last.pre.data, {})

\* C11: an invocation without a command behaves exactly as the add command without
\* arguments; an invocation whose first token is no known command prints the notice
\* and the help, exits with code 0 and leaves the store as it was, whatever arguments
\* follow the token.
C11_Dispatch ==
    /\ last.call = "default" =>
           LET r == CliAdd(PreFS, last.cwd, <<>>)
           IN  /\ fileExists = r.fs.exists
               /\ fileData = r.fs.data
               /\ last.exit = r.exit
               /\ last.out = r.out
               /\ last.errout = r.errout
    /\ last.call = "unknown" =>
           /\ last.exit = 0
           /\ last.errout = <<Text("invalid option. displaying help.")>>
           /\ last.out = <<HelpText>>
           /\ fileExists = last.pre.exists
           /\ fileData = last.pre.data

\* An unknown command followed by an argument ran on a store that holds a path.
C11_Witness ==
    /\ last.call = "unknown"
    /\ Len(last.argv) = 3
    /\ PreLines # <<>>
    /\ last.exit = 0

\* How many times e occurs in s.
Count(s, e) == Cardinality({i \in 1..Len(s) : s[i] = e})

\* s and t hold the same elements the same number of times.
SameBag(s, t) ==
    /\ Len(s) = Len(t)
    /\ \A i \in 1..Len(s) : Count(s, s[i]) = Count(t, s[i])

\* C14: as multisets, a store Delete(i) with a valid index leaves the previous entries
\* minus one occurrence of the i-th, and a successful add command leaves the previous
\* entries plus the working directory when it was not stored, and the previous
\* entries when it was.
C14_MultisetKept ==
    /\ (last.call = "Delete" /\ InRange(last.index, PreLines)) =>
           SameBag(StoredLines, RemoveAt(PreLines, last.index + 1))
    /\ AddRan =>
           IF Contains(PreLines, last.cwd)
           THEN SameBag(StoredLines, PreLines)
           ELSE SameBag(StoredLines, <<last.cwd>> \o PreLines)

\* The store calls and the commands that only read the store.
ReadOnlyCalls == {"List", "Get", "list", "get", "back", "help", "install"}

\* C15: List(), Get(i) and the commands list, get, back, help and install leave the
\* bytes of the store file, and so the stored sequence, as they were, whether they
\* succeed or fail; the only change they make is to create the file, empty, when it
\* was absent. After no call at all is a file that existed absent.
C15_ReadOnly ==
    /\ last.call \in ReadOnlyCalls =>
           /\ fileData = last.pre.data
           /\ StoredLines = PreLines
           /\ fileExists # last.pre.exists =>
                  ~last.pre.exists /\ fileExists /\ fileData = <<>>
    /\ last.pre.exists => fileExists

\* A get command failed on a store that holds a path.
C15_Witness ==
    /\ last.call = "get"
    /\ last.exit = 1
    /\ PreLines # <<>>
    /\ fileData = last.pre.data

\* What the invocation of process record q leaves when it runs alone and to its end.
Intended(q) ==
    IF q.op = "add"
    THEN ScanLines(CliAdd(NewFS(q.pre.exists, q.pre.data, {}), q.cwd, <<>>).fs.data)
    ELSE IF q.op = "delete"
    THEN ScanLines(DBDelete(NewFS(q.pre.exists, q.pre.data, {}), q.index).fs.data)
    ELSE <<>>

\* C12: when two mutating invocations have run at the same time with their file steps
\* interleaved and both have ended, the file holds the complete list that one of the
\* two wrote, never a mixture of lines of both.
C12_LastWriterWins ==
    (\A p \in Procs : procs[p].pc = "done" /\ procs[p].race) =>
        \E p \in Procs : StoredLines = procs[p].wrote

\* C13: an add or delete invocation that ran alone and was interrupted between two of
\* its file steps left the file holding the complete list from before it or the
\* complete list it was going to write.
C13_InterruptedKeepsList ==
    \A p \in Procs :
        (procs[p].pc = "killed" /\ ~procs[p].race /\ procs[p].op \in {"add", "delete"}) =>
            ScanLines(procs[p].left) \in {ScanLines(procs[p].pre.data), Intended(procs[p])}

====
